---- MODULE Spec2Model ----
(***************************************************************************)
(* Life OS Mobile: token-budget tracking and the checkpoint/resume         *)
(* protocol.  The model covers the chat page (app/page.tsx), the           *)
(* checkpoint route (app/api/checkpoint/route.ts) over the                 *)
(* session_checkpoints table, the chat route's event stream as the page    *)
(* consumes it, and the token-monitor library (lib/token-monitor.ts).      *)
(*                                                                         *)
(* JavaScript values: text is a TLA+ string, a number an integer, an       *)
(* object a record, an array a sequence.  A property that is absent from   *)
(* an object is absent from the record's DOMAIN.  percentUsed is the       *)
(* quotient of two integers below 2^53; it is kept as the fraction in      *)
(* lowest terms.  Two such quotients with denominators of at most 180000   *)
(* differ by far more than one unit in the last place of a double, so the  *)
(* doubles are equal, or ordered, exactly as the fractions are.            *)
(***************************************************************************)
EXTENDS Integers, Sequences, FiniteSets, TLC

-----------------------------------------------------------------------------
(* Bounds of the exploration *)

\* handleSend calls from the input box, over all page instances
MaxSends == 1
\* handleSend calls from the input box of the one page instance of SpecSession
MaxSessionSends == 2
\* handleSaveCheckpoint calls of the one page instance of SpecSession
MaxSessionSaves == 1
\* handleSaveCheckpoint calls, over all page instances
MaxSaves == 2
\* text events one response stream may carry
MaxChunks == 1
\* messages of a session value handed to the library
MaxLibMsgs == 4
\* PATCH requests in flight or applied
MaxPatches == 1
\* messages of a message list handed to calculateTokenUsage
MaxBulkMsgs == 5
\* messages of a session of which a checkpoint is taken
MaxSnapMsgs == 3

\* the page instances (browser tabs) open against the same store
Clients == {1, 2}

-----------------------------------------------------------------------------
(* JavaScript values *)

\* undefined, where an object is expected
Undefined == [undefined |-> TRUE]
\* undefined, where text is expected
UndefinedStr == "undefined"
\* null
Null == [null |-> TRUE]

\* obj[key] for an object-valued property
Prop(obj, key) == IF key \in DOMAIN obj THEN obj[key] ELSE Undefined
\* obj[key] for a text-valued property
PropStr(obj, key) == IF key \in DOMAIN obj THEN obj[key] ELSE UndefinedStr
\* a text value in a boolean position
Truthy(s) == s # "" /\ s # UndefinedStr
\* what the uuid column accepts
IsUuid(s) == s # "" /\ s # UndefinedStr

Min(a, b) == IF a < b THEN a ELSE b
Max(a, b) == IF a > b THEN a ELSE b

RECURSIVE GCD(_, _)
GCD(a, b) == IF b = 0 THEN a ELSE GCD(b, a % b)

\* the number n / d
Quot(n, d) ==
    LET g == GCD(n, d)
    IN  IF n = 0 THEN [num |-> 0, den |-> 1] ELSE [num |-> n \div g, den |-> d \div g]

\* n1 / d1 >= n2 / d2, by whole parts and then remainders, so that no product
\* leaves the integers TLC computes with
RECURSIVE FracGeq(_, _, _, _)
FracGeq(n1, d1, n2, d2) ==
    IF n1 \div d1 # n2 \div d2 THEN n1 \div d1 > n2 \div d2
    ELSE IF n2 % d2 = 0 THEN TRUE
    ELSE IF n1 % d1 = 0 THEN FALSE
    ELSE FracGeq(d2, n2 % d2, d1, n1 % d1)

\* a >= b for two numbers
Geq(a, b) == FracGeq(a.num, a.den, b.num, b.den)

\* s.slice(0, n)
Slice0(s, n) == SubSeq(s, 1, Min(n, Len(s)))
\* arr.slice(-n)
SliceLast(arr, n) == SubSeq(arr, Max(1, Len(arr) - n + 1), Len(arr))

\* role.toUpperCase()
ToUpperCase(role) == IF role = "user" THEN "USER" ELSE "ASSISTANT"

\* parts.join('\n')
RECURSIVE JoinLines(_)
JoinLines(parts) ==
    IF Len(parts) = 0 THEN ""
    ELSE IF Len(parts) = 1 THEN parts[1]
    ELSE parts[1] \o "\n" \o JoinLines(Tail(parts))

\* uuidv4(): the n-th identifier drawn by page instance c
uuidv4(c, n) == "u" \o ToString(c) \o "-" \o ToString(n)

-----------------------------------------------------------------------------
(* Constants of the page and of the library *)

MODEL_LIMIT == 180000
CHECKPOINT_THRESHOLD == [num |-> 7, den |-> 10]
WARNING_THRESHOLD == [num |-> 17, den |-> 20]

KnownModels == {"claude-sonnet-4-20250514", "claude-opus-4-5-20251101", "claude-3-5-sonnet-20241022"}
\* MODEL_LIMITS[model] || MODEL_LIMITS.default
MODEL_LIMITS(model) == IF model \in KnownModels THEN 180000 ELSE 150000

\* Math.ceil(text.length / 4)
estimateTokens(text) == (Len(text) + 3) \div 4

-----------------------------------------------------------------------------
(* app/page.tsx: the pure parts *)

\* the value useState gives tokenUsage, and the one a save resets it to
ZeroUsage == [inputTokens |-> 0, outputTokens |-> 0, totalTokens |-> 0, percentUsed |-> Quot(0, 1)]

\* updateTokenUsage replacing the counters by the reported counts
updateTokenUsage_Replaces(prev, newInputTokens, newOutputTokens) ==
    [inputTokens |-> newInputTokens,
     outputTokens |-> newOutputTokens,
     totalTokens |-> newInputTokens + newOutputTokens,
     percentUsed |-> Quot(newInputTokens + newOutputTokens, MODEL_LIMIT)]

\* updateTokenUsage with a total that leaves the output tokens out
updateTokenUsage_InputOnlyTotal(prev, newInputTokens, newOutputTokens) ==
    LET totalTokens == prev.totalTokens + newInputTokens
    IN  [inputTokens |-> prev.inputTokens + newInputTokens,
         outputTokens |-> prev.outputTokens + newOutputTokens,
         totalTokens |-> totalTokens,
         percentUsed |-> Quot(totalTokens, MODEL_LIMIT)]

\* the updater handed to setTokenUsage
updateTokenUsage(prev, newInputTokens, newOutputTokens) ==
    LET totalTokens == prev.totalTokens + newInputTokens + newOutputTokens
    IN  [inputTokens |-> prev.inputTokens + newInputTokens,
         outputTokens |-> prev.outputTokens + newOutputTokens,
         totalTokens |-> totalTokens,
         percentUsed |-> Quot(totalTokens, MODEL_LIMIT)]

\* m => `${m.role.toUpperCase()}: ${m.content.slice(0, 150)}...`
PageRenderMessage(m) == ToUpperCase(m.role) \o ": " \o Slice0(m.content, 150) \o "..."

PageGenerateContinuationPrompt(msgs, task) ==
    LET recentMessages == SliceLast(msgs, 6)
        summary == JoinLines([i \in 1..Len(recentMessages) |-> PageRenderMessage(recentMessages[i])])
    IN  "## SESSION RESUME\n\n**Task:** "
        \o (IF Truthy(task) THEN task ELSE "Continuing previous conversation")
        \o "\n\n### Recent Context:\n" \o summary
        \o "\n\n**INSTRUCTION:** Continue the conversation from where we left off."
        \o " No need to reintroduce yourself or ask what we were doing - just pick up naturally."

getStatusColor(usage) ==
    IF Geq(usage.percentUsed, WARNING_THRESHOLD) THEN "bg-red-500"
    ELSE IF Geq(usage.percentUsed, CHECKPOINT_THRESHOLD) THEN "bg-yellow-500"
    ELSE "bg-green-500"

getStatusClass(usage) ==
    IF Geq(usage.percentUsed, WARNING_THRESHOLD) THEN "token-critical"
    ELSE IF Geq(usage.percentUsed, CHECKPOINT_THRESHOLD) THEN "token-warning"
    ELSE ""

\* the effect without its setShowCheckpointModal(true)
CheckpointEffect_NeverOpens(usage, modal) == modal

\* the effect on [tokenUsage.percentUsed, showCheckpointModal]: the value of
\* showCheckpointModal once the effect has run
CheckpointEffect(usage, modal) ==
    IF Geq(usage.percentUsed, CHECKPOINT_THRESHOLD) /\ ~modal
    THEN (IF Geq(usage.percentUsed, WARNING_THRESHOLD) THEN TRUE ELSE modal)
    ELSE modal

\* SetContent as a filter that drops the message
SetContent_Drops(msgs, id, content) == SelectSeq(msgs, LAMBDA m : m.id # id)

\* prev.map(m => m.id === id ? { ...m, content } : m)
SetContent(msgs, id, content) ==
    [i \in 1..Len(msgs) |-> IF msgs[i].id = id THEN [msgs[i] EXCEPT !.content = content] ELSE msgs[i]]

\* prev.map(m => m.id === id ? { ...m, tokens } : m)
SetTokens(msgs, id, tokens) ==
    [i \in 1..Len(msgs) |->
        IF msgs[i].id = id
        THEN [k \in DOMAIN msgs[i] \cup {"tokens"} |-> IF k = "tokens" THEN tokens ELSE msgs[i][k]]
        ELSE msgs[i]]

-----------------------------------------------------------------------------
(* lib/token-monitor.ts *)

\* msg.tokens || estimateTokens(msg.content)
MessageTokens(msg) ==
    IF "tokens" \in DOMAIN msg /\ msg.tokens # 0 THEN msg.tokens ELSE estimateTokens(msg.content)

RECURSIVE SumTokens(_, _)
SumTokens(msgs, role) ==
    IF Len(msgs) = 0 THEN 0
    ELSE (IF (msgs[1].role = "user") = (role = "user") THEN MessageTokens(msgs[1]) ELSE 0)
         + SumTokens(Tail(msgs), role)

calculateTokenUsage(msgs, model) ==
    LET limit == MODEL_LIMITS(model)
        inputTokens == SumTokens(msgs, "user")
        outputTokens == SumTokens(msgs, "assistant")
        totalTokens == inputTokens + outputTokens
    IN  [inputTokens |-> inputTokens,
         outputTokens |-> outputTokens,
         totalTokens |-> totalTokens,
         percentUsed |-> Quot(totalTokens, limit),
         model |-> model]

needsCheckpoint(usage) == Geq(usage.percentUsed, CHECKPOINT_THRESHOLD)

isCritical(usage) == Geq(usage.percentUsed, WARNING_THRESHOLD)

\* getSessionStatus with > for the checkpoint threshold
getSessionStatus_Strict(usage) ==
    IF Geq(usage.percentUsed, WARNING_THRESHOLD) THEN "critical"
    ELSE IF ~Geq(CHECKPOINT_THRESHOLD, usage.percentUsed) THEN "warning"
    ELSE "active"

getSessionStatus(usage) ==
    IF Geq(usage.percentUsed, WARNING_THRESHOLD) THEN "critical"
    ELSE IF Geq(usage.percentUsed, CHECKPOINT_THRESHOLD) THEN "warning"
    ELSE "active"

\* the tokenUsage of createSession(model)
createSessionUsage(model) ==
    [inputTokens |-> 0, outputTokens |-> 0, totalTokens |-> 0, percentUsed |-> Quot(0, 1), model |-> model]

\* {}
EmptyObject == <<>>

\* JSON.stringify(obj, null, 2), for an object of at most one property, a text
JSONStringify(obj) ==
    IF DOMAIN obj = {} THEN "{}"
    ELSE LET k == CHOOSE key \in DOMAIN obj : TRUE
         IN  "{\n  \"" \o k \o "\": \"" \o obj[k] \o "\"\n}"

\* m => `${m.role.toUpperCase()}: ${m.content.slice(0, 200)}...`
LibRenderMessage(m) == ToUpperCase(m.role) \o ": " \o Slice0(m.content, 200) \o "..."

\* steps.map(s => `- ${mark} ${s}`).join('\n'); the check mark and the
\* hourglass of the source are written [v] and [~]
RenderSteps(mark, steps) == JoinLines([i \in 1..Len(steps) |-> "- " \o mark \o " " \o steps[i]])

generateContinuationPrompt(checkpoint) ==
    LET recentMessages == SliceLast(checkpoint.messages, 5)
        messagesSummary ==
            JoinLines([i \in 1..Len(recentMessages) |-> LibRenderMessage(recentMessages[i])])
    IN  "## SESSION RESUME - " \o checkpoint.id
        \o "\n\n**Task:** " \o checkpoint.taskDescription
        \o "\n\n### Progress\n**Completed:**\n" \o RenderSteps("[v]", checkpoint.completedSteps)
        \o "\n\n**Current:** " \o checkpoint.currentStep
        \o "\n\n**Next Steps:**\n" \o RenderSteps("[~]", checkpoint.nextSteps)
        \o "\n\n### Recent Context\n" \o messagesSummary
        \o "\n\n### Variables\n" \o JSONStringify(checkpoint.contextVariables)
        \o "\n\n**INSTRUCTION:** Continue from \"" \o checkpoint.currentStep
        \o "\" immediately. No confirmation needed."

\* createCheckpoint; id is what uuidv4() returns and now what new Date() reads
createCheckpoint(session, id, now, taskDescription, completedSteps, currentStep, nextSteps, contextVariables) ==
    LET checkpoint ==
            [id |-> id,
             sessionId |-> session.sessionId,
             timestamp |-> now,
             taskDescription |-> taskDescription,
             completedSteps |-> completedSteps,
             currentStep |-> currentStep,
             nextSteps |-> nextSteps,
             messages |-> session.messages,
             tokenUsage |-> session.tokenUsage,
             contextVariables |-> contextVariables,
             status |-> "active",
             continuationPrompt |-> ""]
    IN  [checkpoint EXCEPT !.continuationPrompt = generateContinuationPrompt(checkpoint)]

-----------------------------------------------------------------------------
(* app/api/checkpoint/route.ts over the session_checkpoints table *)

\* InsertRow storing the status the request body carries
InsertRow_PayloadStatus(checkpoint, now) ==
    [id |-> checkpoint.id,
     session_id |-> checkpoint.sessionId,
     task_description |-> checkpoint.taskDescription,
     messages |-> checkpoint.messages,
     token_usage |-> checkpoint.tokenUsage,
     continuation_prompt |-> checkpoint.continuationPrompt,
     status |-> checkpoint.status,
     created_at |-> checkpoint.timestamp,
     updated_at |-> now]

\* the row POST inserts for the request body; created_at is checkpoint.timestamp,
\* updated_at the column default NOW()
InsertRow(checkpoint, now) ==
    [id |-> checkpoint.id,
     session_id |-> checkpoint.sessionId,
     task_description |-> checkpoint.taskDescription,
     messages |-> checkpoint.messages,
     token_usage |-> checkpoint.tokenUsage,
     continuation_prompt |-> checkpoint.continuationPrompt,
     status |-> "active",
     created_at |-> checkpoint.timestamp,
     updated_at |-> now]

\* DemoteActive without the update
DemoteActive_Skipped(table, sessionId, now) == table

\* update({status: 'superseded'}).eq('status', 'active').eq('session_id', sessionId);
\* the BEFORE UPDATE trigger stamps updated_at
DemoteActive(table, sessionId, now) ==
    [id \in DOMAIN table |->
        IF table[id].status = "active" /\ table[id].session_id = sessionId
        THEN [table[id] EXCEPT !.status = "superseded", !.updated_at = now]
        ELSE table[id]]

\* UpdateStatus writing the whole row from a body that carries only id and status
UpdateStatus_WholeRow(table, id, status, now) ==
    [table EXCEPT ![id] = [@ EXCEPT !.status = status, !.updated_at = now,
                                    !.messages = <<>>, !.continuation_prompt = ""]]

\* update({status, updated_at}).eq('id', id)
UpdateStatus(table, id, status, now) ==
    [table EXCEPT ![id] = [@ EXCEPT !.status = status, !.updated_at = now]]

\* GET ?id=: select('*').eq('id', id).single(), for an id in the table
GetById(table, id) == table[id]

\* GET ?active=true: the rows select('*').eq('status','active')
\* .order('created_at', desc).limit(1) may return; none gives null
GetActive(table) ==
    LET active == {id \in DOMAIN table : table[id].status = "active"}
        latest == {id \in active : \A o \in active : table[o].created_at <= table[id].created_at}
    IN  IF active = {} THEN {Null} ELSE {table[id] : id \in latest}

-----------------------------------------------------------------------------
(* State *)

VARIABLES
    \* the session_checkpoints table: id -> row
    store,
    \* POST /api/checkpoint requests in flight; logged tells whether the
    \* activities table took the request's activity record and, as history,
    \* activeBefore the session's checkpoints that were active when the POST
    \* began and demoteOk whether its update of them succeeded
    posts,
    \* PATCH /api/checkpoint requests in flight
    patches,
    \* the time new Date() and NOW() read
    clock,
    \* history: no POST has run its demote step while another POST stood
    \* between its demote step and its insert step
    serial,
    \* history: no store operation has failed
    clean,
    \* per page instance: "init" while initSession's fetch is pending, "ready"
    \* after it, "crashed" once a render has thrown and the tree is unmounted
    phase,
    \* per page instance: the useState values of LifeOSChat
    messages,
    tokenUsage,
    sessionId,
    isLoading,
    showCheckpointModal,
    activeCheckpoint,
    checkpointTask,
    showResumePrompt,
    \* per page instance: uuidv4() calls made so far
    uuidCtr,
    \* handleSend calls made from the input box so far, over all page instances
    nSends,
    \* per page instance: the handleSend invocations awaiting their stream, each
    \* with the messages and the sessionId its request carries and, as history,
    \* the tokenUsage the session had when it was called
    sends,
    \* the session value handed to the token-monitor library and what the
    \* library computed for it
    libMessages,
    libModel,
    libUsage,
    libView,
    \* the checkpoint last made of the session value, by createCheckpoint or as
    \* the page makes it, with the properties through which it holds the
    \* session's own objects and, as history, the messages and tokenUsage the
    \* session had when it was made; and the row the route's insert made of a
    \* request body that carries it
    libSaved

serverVars == <<store, posts, patches, clock, serial, clean>>
pageVars == <<phase, messages, tokenUsage, sessionId, isLoading, showCheckpointModal,
              activeCheckpoint, checkpointTask, showResumePrompt, uuidCtr, nSends, sends>>
libVars == <<libMessages, libModel, libUsage, libView, libSaved>>
vars == <<serverVars, pageVars, libVars>>

\* what the user types into the input box
UserTexts == {"hi"}
\* what the user types into the task box of the checkpoint modal
TaskTexts == {"Fix billing bug"}
\* the text deltas the provider streams
TextDeltas == {"Sure."}
\* the message of a provider error
ErrorMessages == {"Overloaded"}
\* the (input_tokens, output_tokens) pairs the provider reports
UsageReports == {<<3, 2>>, <<126000, 0>>, <<126000, 27000>>}

\* what the library computes for a usage value, and the page's colour for it
ViewOf(usage) ==
    [needsCheckpoint |-> needsCheckpoint(usage),
     isCritical |-> isCritical(usage),
     status |-> getSessionStatus(usage),
     color |-> getStatusColor(usage),
     class |-> getStatusClass(usage)]

PageInit ==
    /\ phase = [c \in Clients |-> "init"]
    /\ messages = [c \in Clients |-> <<>>]
    /\ tokenUsage = [c \in Clients |-> ZeroUsage]
    /\ sessionId = [c \in Clients |-> ""]
    /\ isLoading = [c \in Clients |-> FALSE]
    /\ showCheckpointModal = [c \in Clients |-> FALSE]
    /\ activeCheckpoint = [c \in Clients |-> Null]
    /\ checkpointTask = [c \in Clients |-> ""]
    /\ showResumePrompt = [c \in Clients |-> FALSE]
    /\ uuidCtr = [c \in Clients |-> 0]
    /\ nSends = 0
    /\ sends = [c \in Clients |-> {}]

ServerInit ==
    /\ store = <<>>
    /\ posts = {}
    /\ patches = {}
    /\ clock = 0
    /\ serial = TRUE
    /\ clean = TRUE

LibInitFor(model) ==
    /\ libMessages = <<>>
    /\ libModel = model
    /\ libUsage = createSessionUsage(model)
    /\ libView = ViewOf(createSessionUsage(model))
    /\ libSaved = Null

Init == ServerInit /\ PageInit /\ LibInitFor("claude-sonnet-4-20250514")

\* the component is mounted: its state setters take effect
Mounted(c) == phase[c] # "crashed"

\* the phase after a render with the usage value u: reading u.percentUsed
\* throws when u is undefined
AfterRender(ph, u) == IF u = Undefined THEN "crashed" ELSE ph

\* the phase after a render of the resume prompt, which is rendered when
\* showResumePrompt && activeCheckpoint and reads
\* activeCheckpoint.tokenUsage.percentUsed
AfterPromptRender(ph, show, checkpoint) ==
    IF show /\ checkpoint # Null THEN AfterRender(ph, Prop(checkpoint, "tokenUsage")) ELSE ph

-----------------------------------------------------------------------------
(* app/page.tsx: session start, send, and the response stream *)

\* the effect that runs initSession: GET ?active=true, then a fresh sessionId,
\* and the render that follows the three state updates.  A 500 answers
\* {error}, which has no status; a failed fetch is caught.
InitSession(c) ==
    /\ phase[c] = "init"
    /\ \E checkpoint \in GetActive(store) \cup {[error |-> "Failed to load checkpoint"]} :
        LET found == checkpoint # Null /\ PropStr(checkpoint, "status") = "active"
        IN  /\ activeCheckpoint' = [activeCheckpoint EXCEPT ![c] = IF found THEN checkpoint ELSE @]
            /\ showResumePrompt' = [showResumePrompt EXCEPT ![c] = IF found THEN TRUE ELSE @]
    /\ sessionId' = [sessionId EXCEPT ![c] = uuidv4(c, uuidCtr[c] + 1)]
    /\ uuidCtr' = [uuidCtr EXCEPT ![c] = @ + 1]
    /\ phase' = [phase EXCEPT ![c] = AfterPromptRender("ready", showResumePrompt'[c], activeCheckpoint'[c])]
    /\ UNCHANGED <<messages, tokenUsage, isLoading, showCheckpointModal, checkpointTask, nSends, sends>>
    /\ UNCHANGED <<serverVars, libVars>>

\* const content = overrideContent || input
SendContent(overrideContent, input) == IF Truthy(overrideContent) THEN overrideContent ELSE input

\* handleSend returning at once: if (!content.trim() || isLoading) return
SendRejected_IgnoresLoading(content, loading) == ~Truthy(content)

SendRejected(content, loading) == ~Truthy(content) \/ loading

\* WithUserMessage without the append
WithUserMessage_Skipped(msgs, userMessage, overrideContent) == msgs

\* if (!overrideContent) setMessages(prev => [...prev, userMessage])
WithUserMessage(msgs, userMessage, overrideContent) ==
    IF Truthy(overrideContent) THEN msgs ELSE Append(msgs, userMessage)

\* [...messages, userMessage].map(m => ({role: m.role, content: m.content}))
RequestMessages(msgs, userMessage) ==
    [i \in 1..(Len(msgs) + 1) |->
        IF i <= Len(msgs) THEN [role |-> msgs[i].role, content |-> msgs[i].content]
        ELSE [role |-> userMessage.role, content |-> userMessage.content]]

\* handleSend() with the input box holding input: the user message, the empty
\* assistant message, and the request to /api/chat.  The state updates are
\* flushed before the next event is handled, so the next call reads them.
handleSend(c, input) ==
    /\ Mounted(c)
    /\ ~SendRejected(SendContent(UndefinedStr, input), isLoading[c])
    /\ LET content == SendContent(UndefinedStr, input)
           userMessage == [id |-> uuidv4(c, uuidCtr[c] + 1), role |-> "user",
                           content |-> content, tokens |-> estimateTokens(content)]
           assistantMessage == [id |-> uuidv4(c, uuidCtr[c] + 2), role |-> "assistant", content |-> ""]
       IN  /\ messages' = [messages EXCEPT ![c] =
                  Append(WithUserMessage(@, userMessage, UndefinedStr), assistantMessage)]
           /\ sends' = [sends EXCEPT ![c] = @ \cup
                  {[assistantId |-> assistantMessage.id, fullContent |-> "", chunks |-> 0, pc |-> "open",
                    body |-> RequestMessages(messages[c], userMessage),
                    sessionId |-> sessionId[c], usageAtSend |-> tokenUsage[c]]}]
    /\ isLoading' = [isLoading EXCEPT ![c] = TRUE]
    /\ uuidCtr' = [uuidCtr EXCEPT ![c] = @ + 2]
    /\ nSends' = nSends + 1
    /\ UNCHANGED <<phase, tokenUsage, sessionId, showCheckpointModal, activeCheckpoint,
                   checkpointTask, showResumePrompt>>
    /\ UNCHANGED <<serverVars, libVars>>

\* the user types input and sends it
HandleSend(c, input) == nSends < MaxSends /\ handleSend(c, input)

\* a {type: 'text'} event
StreamText(c, s, delta) ==
    /\ Mounted(c)
    /\ s \in sends[c] /\ s.pc = "open" /\ s.chunks < MaxChunks
    /\ LET fullContent == s.fullContent \o delta
       IN  /\ messages' = [messages EXCEPT ![c] = SetContent(@, s.assistantId, fullContent)]
           /\ sends' = [sends EXCEPT ![c] = (@ \ {s}) \cup
                  {[s EXCEPT !.fullContent = fullContent, !.chunks = @ + 1]}]
    /\ UNCHANGED <<phase, tokenUsage, sessionId, isLoading, showCheckpointModal, activeCheckpoint,
                   checkpointTask, showResumePrompt, uuidCtr, nSends>>
    /\ UNCHANGED <<serverVars, libVars>>

\* the {type: 'done'} event with the provider's usage
StreamDone(c, s, usage) ==
    /\ Mounted(c)
    /\ s \in sends[c] /\ s.pc = "open"
    /\ tokenUsage' = [tokenUsage EXCEPT ![c] = updateTokenUsage(@, usage[1], usage[2])]
    /\ messages' = [messages EXCEPT ![c] = SetTokens(@, s.assistantId, usage[2])]
    /\ showCheckpointModal' = [showCheckpointModal EXCEPT ![c] = CheckpointEffect(tokenUsage'[c], @)]
    /\ sends' = [sends EXCEPT ![c] = (@ \ {s}) \cup {[s EXCEPT !.pc = "closing"]}]
    /\ UNCHANGED <<phase, sessionId, isLoading, activeCheckpoint, checkpointTask, showResumePrompt,
                   uuidCtr, nSends>>
    /\ UNCHANGED <<serverVars, libVars>>

\* a {type: 'error'} event
StreamError(c, s, message) ==
    /\ Mounted(c)
    /\ s \in sends[c] /\ s.pc = "open"
    /\ messages' = [messages EXCEPT ![c] = SetContent(@, s.assistantId, "Error: " \o message)]
    /\ sends' = [sends EXCEPT ![c] = (@ \ {s}) \cup {[s EXCEPT !.pc = "errored"]}]
    /\ UNCHANGED <<phase, tokenUsage, sessionId, isLoading, showCheckpointModal, activeCheckpoint,
                   checkpointTask, showResumePrompt, uuidCtr, nSends>>
    /\ UNCHANGED <<serverVars, libVars>>

\* the reader reports done: after the route's last event, or with no done or
\* error event read (a body that is no event stream, an event split over two reads)
StreamClose(c, s) ==
    /\ Mounted(c)
    /\ s \in sends[c]
    /\ isLoading' = [isLoading EXCEPT ![c] = FALSE]
    /\ sends' = [sends EXCEPT ![c] = @ \ {s}]
    /\ UNCHANGED <<phase, messages, tokenUsage, sessionId, showCheckpointModal, activeCheckpoint,
                   checkpointTask, showResumePrompt, uuidCtr, nSends>>
    /\ UNCHANGED <<serverVars, libVars>>

\* the fetch or a read rejects: the catch block
StreamFail(c, s) ==
    /\ Mounted(c)
    /\ s \in sends[c] /\ s.pc = "open"
    /\ messages' = [messages EXCEPT ![c] =
           SetContent(@, s.assistantId, "Connection error. Check your internet and try again.")]
    /\ isLoading' = [isLoading EXCEPT ![c] = FALSE]
    /\ sends' = [sends EXCEPT ![c] = @ \ {s}]
    /\ UNCHANGED <<phase, tokenUsage, sessionId, showCheckpointModal, activeCheckpoint,
                   checkpointTask, showResumePrompt, uuidCtr, nSends>>
    /\ UNCHANGED <<serverVars, libVars>>

-----------------------------------------------------------------------------
(* app/page.tsx: the checkpoint modal and handleSaveCheckpoint *)

\* the save button under the progress bar is rendered:
\* tokenUsage.percentUsed >= CHECKPOINT_THRESHOLD && (<button ...>)
SaveButtonOffered(c) == Mounted(c) /\ Geq(tokenUsage[c].percentUsed, CHECKPOINT_THRESHOLD)

\* the save button's onClick
OpenCheckpointModal(c) ==
    /\ SaveButtonOffered(c)
    /\ ~showCheckpointModal[c]
    /\ showCheckpointModal' = [showCheckpointModal EXCEPT ![c] = TRUE]
    /\ UNCHANGED <<phase, messages, tokenUsage, sessionId, isLoading, activeCheckpoint,
                   checkpointTask, showResumePrompt, uuidCtr, nSends, sends>>
    /\ UNCHANGED <<serverVars, libVars>>

\* "Not Yet": the modal closes, and the effect runs on the new value
NotYet(c) ==
    /\ Mounted(c)
    /\ showCheckpointModal[c]
    /\ showCheckpointModal' = [showCheckpointModal EXCEPT ![c] = CheckpointEffect(tokenUsage[c], FALSE)]
    /\ UNCHANGED <<phase, messages, tokenUsage, sessionId, isLoading, activeCheckpoint,
                   checkpointTask, showResumePrompt, uuidCtr, nSends, sends>>
    /\ UNCHANGED <<serverVars, libVars>>

\* the task box of the modal
SetCheckpointTask(c, task) ==
    /\ Mounted(c)
    /\ showCheckpointModal[c]
    /\ checkpointTask[c] # task
    /\ checkpointTask' = [checkpointTask EXCEPT ![c] = task]
    /\ UNCHANGED <<phase, messages, tokenUsage, sessionId, isLoading, showCheckpointModal,
                   activeCheckpoint, showResumePrompt, uuidCtr, nSends, sends>>
    /\ UNCHANGED <<serverVars, libVars>>

\* PageCheckpoint with an empty message list in place of the session's
PageCheckpoint_NoMessages(id, sid, now, task, msgs, usage) ==
    [id |-> id,
     sessionId |-> sid,
     timestamp |-> now,
     taskDescription |-> IF Truthy(task) THEN task ELSE "Ongoing conversation",
     messages |-> <<>>,
     tokenUsage |-> usage,
     continuationPrompt |-> PageGenerateContinuationPrompt(msgs, task),
     status |-> "active"]

\* the checkpoint object handleSaveCheckpoint builds from the state it closes over
PageCheckpoint(id, sid, now, task, msgs, usage) ==
    [id |-> id,
     sessionId |-> sid,
     timestamp |-> now,
     taskDescription |-> IF Truthy(task) THEN task ELSE "Ongoing conversation",
     messages |-> msgs,
     tokenUsage |-> usage,
     continuationPrompt |-> PageGenerateContinuationPrompt(msgs, task),
     status |-> "active"]

\* the body handleSaveCheckpoint posts
BuildCheckpoint(c) ==
    PageCheckpoint(uuidv4(c, uuidCtr[c] + 1), sessionId[c], clock, checkpointTask[c],
                   messages[c], tokenUsage[c])

\* "Save & Continue", up to the await of the POST
handleSaveCheckpoint(c) ==
    /\ Mounted(c)
    /\ showCheckpointModal[c]
    /\ posts' = posts \cup {[client |-> c, checkpoint |-> BuildCheckpoint(c), pc |-> "sent", logged |-> FALSE,
             activeBefore |-> {}, demoteOk |-> FALSE]}
    /\ uuidCtr' = [uuidCtr EXCEPT ![c] = @ + 1]
    /\ clock' = clock + 1
    /\ UNCHANGED <<store, patches, serial, clean>>
    /\ UNCHANGED <<phase, messages, tokenUsage, sessionId, isLoading, showCheckpointModal,
                   activeCheckpoint, checkpointTask, showResumePrompt, nSends, sends>>
    /\ UNCHANGED libVars

\* the user clicks "Save & Continue"
HandleSaveCheckpoint(c) == clock < MaxSaves /\ handleSaveCheckpoint(c)

-----------------------------------------------------------------------------
(* app/api/checkpoint/route.ts: POST *)

\* the update that marks the session's active checkpoints superseded; its
\* error is not read, so a failed update changes nothing and POST goes on
PostDemote(p) ==
    /\ p \in posts /\ p.pc = "sent"
    /\ \E ok \in BOOLEAN :
        /\ store' = IF ok /\ IsUuid(p.checkpoint.sessionId)
                    THEN DemoteActive(store, p.checkpoint.sessionId, clock) ELSE store
        /\ clean' = (clean /\ ok /\ IsUuid(p.checkpoint.sessionId))
        /\ posts' = (posts \ {p}) \cup
               {[p EXCEPT !.pc = "demoted",
                          !.activeBefore = {id \in DOMAIN store : store[id].status = "active"
                                               /\ store[id].session_id = p.checkpoint.sessionId},
                          !.demoteOk = ok /\ IsUuid(p.checkpoint.sessionId)]}
    /\ serial' = (serial /\ \A q \in posts : q.pc # "demoted")
    /\ UNCHANGED <<patches, clock>>
    /\ UNCHANGED <<pageVars, libVars>>

\* PostAnswer answering an error when the activity record was not taken
PostAnswer_LogRequired(inserted, logged) == IF inserted /\ logged THEN "ok" ELSE "error"

\* what POST answers: the inserted row, or status 500 when the insert's error
\* was thrown; the outcome of the activities insert is not read
PostAnswer(inserted, logged) == IF inserted THEN "ok" ELSE "error"

\* the insert, then the activity record whose outcome is not read; an insert
\* error is thrown and answered with status 500
PostInsert(p) ==
    /\ p \in posts /\ p.pc = "demoted"
    /\ \E ok \in BOOLEAN, logged \in BOOLEAN :
        LET inserted == ok /\ IsUuid(p.checkpoint.sessionId) /\ p.checkpoint.id \notin DOMAIN store
        IN  /\ store' = IF inserted
                        THEN (p.checkpoint.id :> InsertRow(p.checkpoint, clock)) @@ store ELSE store
            /\ clean' = (clean /\ inserted)
            /\ posts' = (posts \ {p}) \cup
                   {[p EXCEPT !.pc = PostAnswer(inserted, logged), !.logged = inserted /\ logged]}
    /\ UNCHANGED <<patches, clock, serial>>
    /\ UNCHANGED <<pageVars, libVars>>

\* the fetch of handleSaveCheckpoint resolves, with either status: the modal
\* closes and the session is reset
PostRespond(p) ==
    /\ p \in posts /\ p.pc \in {"ok", "error"}
    /\ posts' = posts \ {p}
    /\ LET c == p.client
       IN  IF Mounted(c)
           THEN /\ showCheckpointModal' = [showCheckpointModal EXCEPT ![c] = CheckpointEffect(ZeroUsage, FALSE)]
                /\ checkpointTask' = [checkpointTask EXCEPT ![c] = ""]
                /\ messages' = [messages EXCEPT ![c] = <<>>]
                /\ tokenUsage' = [tokenUsage EXCEPT ![c] = ZeroUsage]
                /\ sessionId' = [sessionId EXCEPT ![c] = uuidv4(c, uuidCtr[c] + 1)]
                /\ uuidCtr' = [uuidCtr EXCEPT ![c] = @ + 1]
                /\ UNCHANGED <<phase, isLoading, activeCheckpoint, showResumePrompt, nSends, sends>>
           ELSE UNCHANGED pageVars
    /\ UNCHANGED <<store, patches, clock, serial, clean>>
    /\ UNCHANGED libVars

\* the fetch of handleSaveCheckpoint rejects (the request does not reach the
\* route): the catch block logs and leaves the session as it is
PostFail(p) ==
    /\ p \in posts /\ p.pc = "sent"
    /\ posts' = posts \ {p}
    /\ UNCHANGED <<store, patches, clock, serial, clean>>
    /\ UNCHANGED <<pageVars, libVars>>

-----------------------------------------------------------------------------
(* app/page.tsx: handleResume and handleStartFresh; route.ts: PATCH *)

\* The resume prompt carries the two buttons "Resume" and "Start Fresh".  Its
\* render reads activeCheckpoint.tokenUsage.percentUsed, and a record loaded
\* from the store has token_usage instead (InsertRow, GetActive): the render
\* throws whenever showResumePrompt && activeCheckpoint, so HandleResume and
\* HandleStartFresh are enabled in no state a page instance reaches, and Next
\* does not list them.  Their PATCH requests are taken from any client of the
\* route (PatchRequest).

\* "Resume", up to the await of the PATCH: the session takes the loaded
\* record's messages, tokenUsage and sessionId, read under the page's
\* Checkpoint field names.  The handler keeps the isLoading, messages and
\* sessionId it was created with; the render that follows the state updates
\* reads tokenUsage.percentUsed.
HandleResume(c) ==
    /\ Mounted(c)
    /\ showResumePrompt[c]
    /\ activeCheckpoint[c] # Null
    /\ messages' = [messages EXCEPT ![c] = Prop(activeCheckpoint[c], "messages")]
    /\ tokenUsage' = [tokenUsage EXCEPT ![c] = Prop(activeCheckpoint[c], "tokenUsage")]
    /\ sessionId' = [sessionId EXCEPT ![c] = PropStr(activeCheckpoint[c], "sessionId")]
    /\ showResumePrompt' = [showResumePrompt EXCEPT ![c] = FALSE]
    /\ patches' = patches \cup
           {[client |-> c, id |-> PropStr(activeCheckpoint[c], "id"), status |-> "resumed",
             await |-> TRUE, seenLoading |-> isLoading[c],
             seenMessages |-> messages[c], seenSessionId |-> sessionId[c],
             prompt |-> PropStr(activeCheckpoint[c], "continuationPrompt")]}
    /\ phase' = [phase EXCEPT ![c] = AfterRender(@, tokenUsage'[c])]
    /\ showCheckpointModal' = [showCheckpointModal EXCEPT ![c] =
           IF tokenUsage'[c] = Undefined THEN @ ELSE CheckpointEffect(tokenUsage'[c], @)]
    /\ UNCHANGED <<isLoading, activeCheckpoint, checkpointTask, uuidCtr, nSends, sends>>
    /\ UNCHANGED <<store, posts, clock, serial, clean>>
    /\ UNCHANGED libVars

\* "Start Fresh": the PATCH is sent and not awaited
HandleStartFresh(c) ==
    /\ Mounted(c)
    /\ showResumePrompt[c]
    /\ activeCheckpoint[c] # Null
    /\ patches' = patches \cup
           {[client |-> c, id |-> PropStr(activeCheckpoint[c], "id"), status |-> "abandoned",
             await |-> FALSE, seenLoading |-> FALSE, seenMessages |-> <<>>, seenSessionId |-> "",
             prompt |-> ""]}
    /\ showResumePrompt' = [showResumePrompt EXCEPT ![c] = FALSE]
    /\ activeCheckpoint' = [activeCheckpoint EXCEPT ![c] = Null]
    /\ UNCHANGED <<phase, messages, tokenUsage, sessionId, isLoading, showCheckpointModal,
                   checkpointTask, uuidCtr, nSends, sends>>
    /\ UNCHANGED <<store, posts, clock, serial, clean>>
    /\ UNCHANGED libVars

\* the messages of the request that handleSend(continuationPrompt) makes when
\* handleResume calls it: the handleSend of the render handleResume was
\* created in, whose messages are that render's, and the prompt read from the
\* loaded record
ResumeRequest(seenMessages, checkpoint) ==
    RequestMessages(seenMessages,
        [role |-> "user", content |-> SendContent(PropStr(checkpoint, "continuationPrompt"), "")])

\* handleResume after the PATCH has answered (its status is not read): the
\* resume message, then handleSend(continuationPrompt).  With an override the
\* user message is not appended again; with none the content is the input
\* box's, which is empty, and handleSend returns.  The handleSend called is
\* the one of the render handleResume was created in: it reads that render's
\* isLoading, messages and sessionId.
ResumeContinuation(p) ==
    LET c == p.client
        resumeMessage == [id |-> uuidv4(c, uuidCtr[c] + 1), role |-> "user", content |-> p.prompt]
        content == SendContent(p.prompt, "")
        starts == ~SendRejected(content, p.seenLoading)
        assistantMessage == [id |-> uuidv4(c, uuidCtr[c] + 3), role |-> "assistant", content |-> ""]
    IN  /\ messages' = [messages EXCEPT ![c] =
               IF starts THEN @ \o <<resumeMessage, assistantMessage>> ELSE Append(@, resumeMessage)]
        /\ isLoading' = [isLoading EXCEPT ![c] = IF starts THEN TRUE ELSE @]
        /\ sends' = [sends EXCEPT ![c] = IF starts
               THEN @ \cup {[assistantId |-> assistantMessage.id, fullContent |-> "", chunks |-> 0, pc |-> "open",
                            body |-> ResumeRequest(p.seenMessages, [continuationPrompt |-> p.prompt]),
                            sessionId |-> p.seenSessionId, usageAtSend |-> tokenUsage[c]]}
               ELSE @]
        /\ uuidCtr' = [uuidCtr EXCEPT ![c] = IF starts THEN @ + 3 ELSE @ + 1]
        /\ UNCHANGED <<phase, tokenUsage, sessionId, showCheckpointModal, activeCheckpoint,
                       checkpointTask, showResumePrompt, nSends>>

\* a PATCH request as handleResume (status 'resumed') and handleStartFresh
\* (status 'abandoned') build it, for a stored checkpoint, sent by a client of
\* the route that awaits nothing from it
PatchRequest(id, status) ==
    /\ Cardinality(patches)
         + Cardinality({r \in DOMAIN store : store[r].status \in {"resumed", "abandoned"}}) < MaxPatches
    /\ id \in DOMAIN store
    /\ patches' = patches \cup
           {[client |-> 0, id |-> id, status |-> status,
             await |-> FALSE, seenLoading |-> FALSE, seenMessages |-> <<>>, seenSessionId |-> "",
             prompt |-> ""]}
    /\ UNCHANGED <<store, posts, clock, serial, clean>>
    /\ UNCHANGED <<pageVars, libVars>>

\* PATCH: the status and updated_at of the row with that id; no row, or a
\* backend error, answers 500.  An awaiting handleResume then goes on; on an
\* unmounted component its state updates are dropped.
PatchServe(p) ==
    /\ p \in patches
    /\ \E ok \in BOOLEAN :
        store' = IF ok /\ p.id \in DOMAIN store THEN UpdateStatus(store, p.id, p.status, clock) ELSE store
    /\ patches' = patches \ {p}
    /\ IF p.await /\ Mounted(p.client) THEN ResumeContinuation(p) ELSE UNCHANGED pageVars
    /\ UNCHANGED <<posts, clock, serial, clean>>
    /\ UNCHANGED libVars

\* the PATCH request is lost: handleResume's await rejects and the handler ends
PatchFail(p) ==
    /\ p \in patches
    /\ patches' = patches \ {p}
    /\ UNCHANGED <<store, posts, clock, serial, clean>>
    /\ UNCHANGED <<pageVars, libVars>>

-----------------------------------------------------------------------------
(* The application: page instances against the routes and the store *)

Next ==
    \/ \E c \in Clients : InitSession(c)
    \/ \E c \in Clients, input \in UserTexts : HandleSend(c, input)
    \/ \E c \in Clients : \E s \in sends[c], delta \in TextDeltas : StreamText(c, s, delta)
    \/ \E c \in Clients : \E s \in sends[c], usage \in UsageReports : StreamDone(c, s, usage)
    \/ \E c \in Clients : \E s \in sends[c], message \in ErrorMessages : StreamError(c, s, message)
    \/ \E c \in Clients : \E s \in sends[c] : StreamClose(c, s)
    \/ \E c \in Clients : \E s \in sends[c] : StreamFail(c, s)
    \/ \E c \in Clients : OpenCheckpointModal(c)
    \/ \E c \in Clients : NotYet(c)
    \/ \E c \in Clients, task \in TaskTexts : SetCheckpointTask(c, task)
    \/ \E c \in Clients : HandleSaveCheckpoint(c)
    \/ \E p \in posts : PostDemote(p)
    \/ \E p \in posts : PostInsert(p)
    \/ \E p \in posts : PostRespond(p)
    \/ \E p \in posts : PostFail(p)
    \/ \E id \in DOMAIN store, status \in {"resumed", "abandoned"} : PatchRequest(id, status)
    \/ \E p \in patches : PatchServe(p)
    \/ \E p \in patches : PatchFail(p)

Spec == Init /\ [][Next]_vars

-----------------------------------------------------------------------------
(* One page instance: its sessions, from send to save and reset *)

\* the user types input and sends it
SessionSend(input) == nSends < MaxSessionSends /\ handleSend(1, input)

\* the user clicks "Save & Continue"
SessionSave == clock < MaxSessionSaves /\ handleSaveCheckpoint(1)

SessionNext ==
    \/ InitSession(1)
    \/ \E input \in UserTexts : SessionSend(input)
    \/ \E s \in sends[1], delta \in TextDeltas : StreamText(1, s, delta)
    \/ \E s \in sends[1], usage \in UsageReports : StreamDone(1, s, usage)
    \/ \E s \in sends[1], message \in ErrorMessages : StreamError(1, s, message)
    \/ \E s \in sends[1] : StreamClose(1, s)
    \/ \E s \in sends[1] : StreamFail(1, s)
    \/ OpenCheckpointModal(1)
    \/ NotYet(1)
    \/ \E task \in TaskTexts : SetCheckpointTask(1, task)
    \/ SessionSave
    \/ \E p \in posts : PostDemote(p)
    \/ \E p \in posts : PostInsert(p)
    \/ \E p \in posts : PostRespond(p)
    \/ \E p \in posts : PostFail(p)

SpecSession == Init /\ [][SessionNext]_vars

\* the steps that need no user and no provider: initSession's effect runs,
\* the route serves a POST it has received, a stream the route has finished
\* is read to its end, an answered fetch resumes its handler
SessionProgramStep ==
    \/ InitSession(1)
    \/ \E s \in sends[1] : s.pc # "open" /\ StreamClose(1, s)
    \/ \E p \in posts : PostDemote(p) \/ PostInsert(p) \/ PostRespond(p)

\* the page instance with the steps of the program taken whenever they stay
\* possible; what the user does, and when, is left open
SpecSessionFair == SpecSession /\ WF_vars(SessionProgramStep)

-----------------------------------------------------------------------------
(* The token-monitor library applied to session values *)

\* the model identifiers handed to the library: a known one and an unknown one
LibModels == {"claude-sonnet-4-20250514", "some-other-model"}
\* the messages appended to the session value; tokens may be absent
LibPool ==
    {[role |-> r, content |-> "hello"] : r \in {"user", "assistant"}}
    \cup {[role |-> r, content |-> "hello", tokens |-> t] :
            r \in {"user", "assistant"}, t \in {27000, 63000}}

LibInit == ServerInit /\ PageInit /\ \E model \in LibModels : LibInitFor(model)

\* the properties through which a checkpoint holds the session's own objects:
\* createCheckpoint stores session.messages and session.tokenUsage as they
\* are; the page's checkpoint leaves the page as the text JSON.stringify makes
\* of it
SharedWithSession(by) == IF by = "createCheckpoint" THEN {"messages", "tokenUsage"} ELSE {}

\* the saved checkpoint as it reads once the session's messages and tokenUsage
\* objects hold msgs and usage: a property that is the session's own object
\* reads as the session's
SeenThrough(saved, refs, msgs, usage) ==
    [saved EXCEPT !.checkpoint.messages = IF "messages" \in refs THEN msgs ELSE @,
                  !.checkpoint.tokenUsage = IF "tokenUsage" \in refs THEN usage ELSE @]

\* the holder of the session appends a message and stores the usage the
\* library computes.  For a property in inPlace the session's object is
\* changed (messages.push(msg), Object.assign(tokenUsage, usage)); for the
\* others the session is given a new object, which nothing else holds.
SessionChange(msg, inPlace) ==
    /\ libMessages' = Append(libMessages,
           [k \in DOMAIN msg \cup {"id"} |-> IF k = "id" THEN uuidv4(0, Len(libMessages) + 1) ELSE msg[k]])
    /\ libUsage' = calculateTokenUsage(libMessages', libModel)
    /\ libView' = ViewOf(libUsage')
    /\ libSaved' = IF libSaved = Null THEN Null
                   ELSE [SeenThrough(libSaved, libSaved.refs \cap inPlace, libMessages', libUsage')
                            EXCEPT !.refs = @ \cap inPlace]
    /\ UNCHANGED libModel
    /\ UNCHANGED <<serverVars, pageVars>>

\* a message is appended, the session taking new objects, and the library
\* evaluates the session
LibAppend(msg) == Len(libMessages) < MaxLibMsgs /\ SessionChange(msg, {})

\* createSession(model): a new session value
LibCreateSession(model) ==
    /\ libMessages # <<>>
    /\ libMessages' = <<>>
    /\ libModel' = model
    /\ libUsage' = createSessionUsage(model)
    /\ libView' = ViewOf(libUsage')
    /\ libSaved' = Null
    /\ UNCHANGED <<serverVars, pageVars>>

\* the session value as createCheckpoint takes it
LibSession == [sessionId |-> uuidv4(0, 0), messages |-> libMessages, tokenUsage |-> libUsage]

\* the step lists and the context variables handed to createCheckpoint
LibSteps == {<<>>, <<"Parsed the export", "Mapped the fields">>}
LibContexts == {EmptyObject, [auction |-> "2025-12-03"]}
\* the statuses a request body may carry
PayloadStatuses == {"active", "abandoned", "resumed"}

\* createCheckpoint(session, task, completedSteps, currentStep, nextSteps, contextVariables)
LibCreateCheckpoint(task, steps, context) ==
    /\ libSaved = Null
    /\ libSaved' = [by |-> "createCheckpoint",
                    checkpoint |-> createCheckpoint(LibSession, uuidv4(0, Len(libMessages) + 1), 0,
                                                    task, steps, "Review", steps, context),
                    refs |-> SharedWithSession("createCheckpoint"),
                    taken |-> [messages |-> libMessages, tokenUsage |-> libUsage]]
    /\ UNCHANGED <<libMessages, libModel, libUsage, libView>>
    /\ UNCHANGED <<serverVars, pageVars>>

\* the checkpoint object of handleSaveCheckpoint for the session value
LibPageCheckpoint(task) ==
    /\ libSaved = Null
    /\ libSaved' = [by |-> "handleSaveCheckpoint",
                    checkpoint |-> PageCheckpoint(uuidv4(0, Len(libMessages) + 1), LibSession.sessionId, 0,
                                                  task, libMessages, libUsage),
                    refs |-> SharedWithSession("handleSaveCheckpoint"),
                    taken |-> [messages |-> libMessages, tokenUsage |-> libUsage]]
    /\ UNCHANGED <<libMessages, libModel, libUsage, libView>>
    /\ UNCHANGED <<serverVars, pageVars>>

\* the route's insert for a request body that carries the checkpoint with
\* some status
LibInsert(status) ==
    /\ libSaved # Null /\ "row" \notin DOMAIN libSaved
    /\ libSaved' = [by |-> libSaved.by, checkpoint |-> libSaved.checkpoint,
                    refs |-> libSaved.refs, taken |-> libSaved.taken, payloadStatus |-> status,
                    row |-> InsertRow([libSaved.checkpoint EXCEPT !.status = status], 0)]
    /\ UNCHANGED <<libMessages, libModel, libUsage, libView>>
    /\ UNCHANGED <<serverVars, pageVars>>

LibNext ==
    \/ \E msg \in LibPool : LibAppend(msg)
    \/ \E model \in LibModels : LibCreateSession(model)
    \/ \E task \in TaskTexts, steps \in LibSteps, context \in LibContexts :
          LibCreateCheckpoint(task, steps, context)
    \/ \E task \in TaskTexts \cup {""} : LibPageCheckpoint(task)
    \/ \E status \in PayloadStatuses : LibInsert(status)

SpecLib == LibInit /\ [][LibNext]_vars

-----------------------------------------------------------------------------
(* calculateTokenUsage over message lists *)

\* the messages of the lists: user turns of 40, 55 and 30 tokens, assistant
\* turns of 200 and 150, and turns of either role with a count of 0 or with
\* no count
BulkPool ==
    {[role |-> "user", content |-> "hello", tokens |-> t] : t \in {40, 55, 30, 0}}
    \cup {[role |-> "assistant", content |-> "hello", tokens |-> t] : t \in {200, 150, 0}}
    \cup {[role |-> r, content |-> "hello"] : r \in {"user", "assistant"}}

\* calculateTokenUsage(messages, model) for the list with one more message
BulkAppend(msg) ==
    /\ Len(libMessages) < MaxBulkMsgs
    /\ libMessages' = Append(libMessages,
           [k \in DOMAIN msg \cup {"id"} |-> IF k = "id" THEN uuidv4(0, Len(libMessages) + 1) ELSE msg[k]])
    /\ libUsage' = calculateTokenUsage(libMessages', libModel)
    /\ libView' = ViewOf(libUsage')
    /\ UNCHANGED <<libModel, libSaved>>
    /\ UNCHANGED <<serverVars, pageVars>>

BulkNext ==
    \/ \E msg \in BulkPool : BulkAppend(msg)
    \/ \E model \in LibModels : LibCreateSession(model)

SpecBulk == LibInit /\ [][BulkNext]_vars

-----------------------------------------------------------------------------
(* A checkpoint and the session it was taken of *)

\* the messages appended to the session
SnapPool == {[role |-> "user", content |-> "hello"],
             [role |-> "assistant", content |-> "hello", tokens |-> 27000]}

\* the session changes, each of its two objects in place or by replacement
SnapChange(msg, inPlace) == Len(libMessages) < MaxSnapMsgs /\ SessionChange(msg, inPlace)

SnapNext ==
    \/ \E msg \in SnapPool, inPlace \in SUBSET {"messages", "tokenUsage"} : SnapChange(msg, inPlace)
    \/ \E model \in LibModels : LibCreateSession(model)
    \/ \E task \in TaskTexts, steps \in LibSteps, context \in LibContexts :
          LibCreateCheckpoint(task, steps, context)
    \/ \E task \in TaskTexts \cup {""} : LibPageCheckpoint(task)
    \/ \E status \in PayloadStatuses : LibInsert(status)

SpecSnapshot == LibInit /\ [][SnapNext]_vars

-----------------------------------------------------------------------------
(* Checkpoint store: one active checkpoint per session *)

\* the active checkpoints of a session
ActiveOf(table, sid) == {id \in DOMAIN table : table[id].status = "active" /\ table[id].session_id = sid}
SessionsOf(table) == {table[id].session_id : id \in DOMAIN table}
AtMostOneActive == \A sid \in SessionsOf(store) : Cardinality(ActiveOf(store, sid)) <= 1

\* the step is POST p's demote step / insert step
IsDemoteStep(p) == p \in posts /\ p.pc = "sent" /\ p \notin posts'
                   /\ \E q \in posts' : q.checkpoint = p.checkpoint /\ q.pc = "demoted"
IsInsertStep(p) == p \in posts /\ p.pc = "demoted" /\ p.checkpoint.id \notin DOMAIN store
                   /\ p.checkpoint.id \in DOMAIN store'

\* C1: while the POSTs run one after another and none of their steps fails,
\* every session has at most one active checkpoint; a demote step leaves the
\* session's active checkpoints superseded, and an insert step leaves the new
\* checkpoint as the session's only active one.
C1_SingleActiveSequential ==
    /\ [](serial /\ clean => AtMostOneActive)
    /\ [][\A p \in posts : serial' /\ clean' =>
            /\ IsDemoteStep(p) =>
                 \A id \in ActiveOf(store, p.checkpoint.sessionId) : store'[id].status = "superseded"
            /\ IsInsertStep(p) =>
                 /\ ActiveOf(store', p.checkpoint.sessionId) = {p.checkpoint.id}
                 /\ \A id \in DOMAIN store : store[id].session_id = p.checkpoint.sessionId
                        => store'[id].status # "active"]_vars

\* a second checkpoint of a session was inserted after the first: the first
\* is superseded, the second active
C1_Witness ==
    /\ serial /\ clean
    /\ \E a \in DOMAIN store, b \in DOMAIN store :
        /\ store[a].session_id = store[b].session_id
        /\ store[a].status = "superseded" /\ store[b].status = "active"

\* C2: once every POST has completed, and none of their steps has failed, at
\* most one checkpoint of each session is active, whatever the interleaving of
\* the demote and insert steps.
C2_SingleActiveConcurrent == (clean /\ posts = {}) => AtMostOneActive

-----------------------------------------------------------------------------
(* Save and reset *)

\* the step delivers POST p's answer to handleSaveCheckpoint
IsAnswerStep(p) == p \in posts /\ p.pc \in {"ok", "error"} /\ p \notin posts'

\* C3: when the POST answers with an error outcome, the session's messages,
\* tokenUsage and sessionId are left as they were.
C3_FailedSaveKeepsSession ==
    [][\A p \in posts : IsAnswerStep(p) /\ p.pc = "error" =>
          /\ messages'[p.client] = messages[p.client]
          /\ tokenUsage'[p.client] = tokenUsage[p.client]
          /\ sessionId'[p.client] = sessionId[p.client]]_vars

\* C4: a checkpoint that was inserted and is loaded back by id carries the
\* saver's messages, tokenUsage and continuationPrompt under the saver's
\* field names.
C4_RoundTrip ==
    \A p \in posts : p.pc = "ok" =>
        LET loaded == GetById(store, p.checkpoint.id)
        IN  /\ Prop(loaded, "messages") = p.checkpoint.messages
            /\ Prop(loaded, "tokenUsage") = p.checkpoint.tokenUsage
            /\ PropStr(loaded, "continuationPrompt") = p.checkpoint.continuationPrompt

-----------------------------------------------------------------------------
(* Resume and abandon *)

\* C5: a page instance that has loaded the active checkpoint C and offers to
\* resume it is able to: it is mounted, and what the resume installs in the
\* session (the loaded record's messages, tokenUsage, sessionId and
\* continuationPrompt, as handleResume reads them) are C's stored values.
C5_ResumeFlow ==
    \A c \in Clients : showResumePrompt[c] /\ activeCheckpoint[c] # Null =>
        LET C == activeCheckpoint[c]
        IN  /\ Mounted(c)
            /\ Prop(C, "messages") = C.messages
            /\ Prop(C, "tokenUsage") = C.token_usage
            /\ PropStr(C, "sessionId") = C.session_id
            /\ PropStr(C, "continuationPrompt") = C.continuation_prompt

\* the step applies PATCH p to a row that is active
IsPatchOfActive(p) ==
    /\ p \in patches /\ p \notin patches'
    /\ p.id \in DOMAIN store /\ store[p.id].status = "active"
    /\ store' # store

\* the fields of a row other than status and updated_at
Payload(row) == [k \in DOMAIN row \ {"status", "updated_at"} |-> row[k]]

\* C6: the PATCH that "Start Fresh" sends takes an active checkpoint to
\* abandoned, and no step changes anything of a stored checkpoint but its
\* status and its updated_at.
C6_AbandonAndFrame ==
    [][/\ \A p \in patches : IsPatchOfActive(p) /\ p.status = "abandoned" =>
              store'[p.id].status = "abandoned"
       /\ \A id \in DOMAIN store :
            id \in DOMAIN store' /\ Payload(store'[id]) = Payload(store[id])]_vars

\* a checkpoint with messages has been abandoned, and one superseded
C6_Witness ==
    /\ \E id \in DOMAIN store : store[id].status = "abandoned" /\ store[id].messages # <<>>
    /\ \E id \in DOMAIN store : store[id].status = "superseded" /\ store[id].messages # <<>>

TerminalStatuses == {"resumed", "abandoned", "superseded"}

\* C7: a checkpoint whose status is resumed, abandoned or superseded keeps
\* that status in every step.
C7_TerminalStatuses ==
    [][\A id \in DOMAIN store :
          store[id].status \in TerminalStatuses => store'[id].status = store[id].status]_vars

-----------------------------------------------------------------------------
(* Token accounting *)

\* C8: in every state of every session, tokenUsage.totalTokens is
\* tokenUsage.inputTokens + tokenUsage.outputTokens.
C8_TotalIsSum ==
    \A c \in Clients :
        /\ {"inputTokens", "outputTokens", "totalTokens"} \subseteq DOMAIN tokenUsage[c]
        /\ tokenUsage[c].totalTokens = tokenUsage[c].inputTokens + tokenUsage[c].outputTokens

\* a session that has accumulated the usage of two exchanges, output tokens among it
C8_Witness ==
    \E c \in Clients :
        /\ tokenUsage[c].inputTokens = 126003 /\ tokenUsage[c].outputTokens = 27002
        /\ tokenUsage[c].totalTokens = 153005

\* the model the chat route asks the provider for when the page names none
ChatModel == "claude-sonnet-4-20250514"

\* every exchange of the session has completed with a usage report
ExchangesCompleted(c) ==
    /\ Mounted(c)
    /\ sends[c] = {}
    /\ messages[c] # <<>>
    /\ \A i \in 1..Len(messages[c]) : messages[c][i].role = "assistant" => "tokens" \in DOMAIN messages[c][i]

\* C9: once the exchanges of a session have completed, the usage accumulated
\* by updateTokenUsage from the reported counts equals calculateTokenUsage over
\* the session's messages, for the same model.
C9_IncrementalIsRecompute ==
    \A c \in Clients : ExchangesCompleted(c) =>
        LET recomputed == calculateTokenUsage(messages[c], ChatModel)
        IN  /\ tokenUsage[c].inputTokens = recomputed.inputTokens
            /\ tokenUsage[c].outputTokens = recomputed.outputTokens
            /\ tokenUsage[c].totalTokens = recomputed.totalTokens
            /\ tokenUsage[c].percentUsed = recomputed.percentUsed

\* how safe a status is
Rank(status) == CASE status = "active" -> 0 [] status = "warning" -> 1 [] status = "critical" -> 2

\* C10: needsCheckpoint is true iff percentUsed >= 0.70, isCritical iff
\* percentUsed >= 0.85, the status is critical from 0.85, warning from 0.70 and
\* active below; 126000 of 180000 tokens is warning, needing a checkpoint, not
\* critical; the page's class for the bar follows the same thresholds; and the
\* status does not move to a safer value when percentUsed does not decrease.
C10_Thresholds ==
    /\ [](LET pct == libUsage.percentUsed
              atCheckpoint == 10 * pct.num >= 7 * pct.den
              atWarning == 20 * pct.num >= 17 * pct.den
          IN  /\ libView.needsCheckpoint = atCheckpoint
              /\ libView.isCritical = atWarning
              /\ libView.status = (IF atWarning THEN "critical" ELSE IF atCheckpoint THEN "warning" ELSE "active")
              /\ libView.class = (IF atWarning THEN "token-critical" ELSE IF atCheckpoint THEN "token-warning" ELSE "")
              /\ (libUsage.totalTokens = 126000 /\ MODEL_LIMITS(libModel) = 180000) =>
                    (libView.status = "warning" /\ libView.needsCheckpoint /\ ~libView.isCritical))
    /\ [][Geq(libUsage'.percentUsed, libUsage.percentUsed)
          => Rank(libView'.status) >= Rank(libView.status)]_vars

\* a session at exactly 126000 of 180000 tokens, evaluated as warning
C10_Witness ==
    /\ libUsage.totalTokens = 126000 /\ MODEL_LIMITS(libModel) = 180000
    /\ libView.status = "warning" /\ libView.needsCheckpoint /\ ~libView.isCritical

-----------------------------------------------------------------------------
(* The page's session: surfacing the checkpoint, streaming, failures *)

\* the step adds reported usage to the session of page instance c
IsUsageUpdate(c) ==
    /\ Mounted(c)
    /\ tokenUsage'[c] # tokenUsage[c]
    /\ tokenUsage'[c].totalTokens >= tokenUsage[c].totalTokens

\* C11: after every usage update, from 85% on the checkpoint modal is shown;
\* from 70% and below 85% the update does not open the modal and the save
\* button is offered; below 70% neither the modal nor the button is there.
\* And in every state of a mounted page the modal is shown from 85% on and
\* nothing is offered below 70%.
C11_Surfacing ==
    /\ [][\A c \in Clients : IsUsageUpdate(c) =>
            LET pct == tokenUsage'[c].percentUsed
                atCheckpoint == 10 * pct.num >= 7 * pct.den
                atWarning == 20 * pct.num >= 17 * pct.den
            IN  /\ atWarning => showCheckpointModal'[c]
                /\ atCheckpoint /\ ~atWarning =>
                      /\ showCheckpointModal'[c] = showCheckpointModal[c]
                      /\ SaveButtonOffered(c)'
                /\ ~atCheckpoint => ~showCheckpointModal'[c] /\ ~SaveButtonOffered(c)']_vars
    /\ [](\A c \in Clients : Mounted(c) =>
            LET pct == tokenUsage[c].percentUsed
            IN  /\ 20 * pct.num >= 17 * pct.den => showCheckpointModal[c]
                /\ 10 * pct.num < 7 * pct.den => ~showCheckpointModal[c] /\ ~SaveButtonOffered(c))

\* a session at exactly 153000 of 180000 tokens, its modal shown
C11_Witness ==
    \E c \in Clients :
        Mounted(c) /\ tokenUsage[c].totalTokens = 153000 /\ showCheckpointModal[c]

\* C12: a page instance has at most one response stream in flight, and the
\* loading flag is set while it has one; while a stream is in flight a send
\* from the input box is rejected; and a step that starts a stream starts it
\* with none in flight.
C12_OneStream ==
    /\ [](\A c \in Clients :
            /\ Cardinality(sends[c]) <= 1
            /\ sends[c] # {} => isLoading[c] /\ \A input \in UserTexts : ~ENABLED handleSend(c, input))
    /\ [][\A c \in Clients : (sends'[c] \ sends[c]) # {} /\ (\A s \in sends'[c] \ sends[c] : s.pc = "open"
                                                                  /\ s.fullContent = "" /\ s.chunks = 0)
              => sends[c] = {}]_vars

\* the second send of a page instance has started its stream after the first
\* one's ended, and is the only one in flight
C12_Witness ==
    \E c \in Clients : nSends = 2 /\ Cardinality(sends[c]) = 1 /\ isLoading[c] /\ Len(messages[c]) = 4

\* what the page puts in the assistant message when the response fails
ErrorIndicators ==
    {"Error: " \o e : e \in ErrorMessages} \cup {"Connection error. Check your internet and try again."}

\* the step ends stream s of page instance c after an error event, or by a
\* rejected fetch or read (the catch block rewrites the message)
IsFailureEnd(c, s) ==
    /\ s \in sends[c] /\ sends'[c] = sends[c] \ {s}
    /\ s.pc = "errored" \/ (s.pc = "open" /\ messages'[c] # messages[c])

-----------------------------------------------------------------------------
(* The checkpoint route: the activity record, getActive, creation *)

\* C14: a POST whose checkpoint row was inserted answers with success whether
\* or not the activity record was taken, and the row is in the store; a POST
\* answers with an error only if its row was not inserted.
C14_LoggingBestEffort ==
    /\ [][\A p \in posts : IsInsertStep(p) =>
            \E q \in posts' : q.checkpoint = p.checkpoint /\ q.pc = "ok"]_vars
    /\ [](\A p \in posts :
            /\ p.pc = "ok" => /\ p.checkpoint.id \in DOMAIN store
                              /\ Payload(store[p.checkpoint.id]) = Payload(InsertRow(p.checkpoint, 0))
            /\ p.pc = "error" => p.checkpoint.id \notin DOMAIN store)

\* a POST has inserted its row, the activity record was refused, and the
\* answer on its way is the success
C14_Witness ==
    \E p \in posts : p.pc = "ok" /\ ~p.logged /\ p.checkpoint.id \in DOMAIN store

\* the step is the end of initSession on page instance c
IsInitStep(c) == phase[c] = "init" /\ phase'[c] # "init"

\* the active checkpoints of the store
AllActive(table) == {id \in DOMAIN table : table[id].status = "active"}

\* C15: what initSession loads is an active checkpoint of the store, and none
\* of the active ones was created later; and when the store holds an active
\* checkpoint, initSession does not end as it ends when there is none, with
\* no checkpoint loaded and nothing shown.
C15_GetActive ==
    [][\A c \in Clients : IsInitStep(c) =>
          /\ activeCheckpoint'[c] # Null =>
                /\ activeCheckpoint'[c].id \in AllActive(store)
                /\ activeCheckpoint'[c] = store[activeCheckpoint'[c].id]
                /\ \A o \in AllActive(store) : store[o].created_at <= activeCheckpoint'[c].created_at
          /\ AllActive(store) # {} => activeCheckpoint'[c] # Null]_vars

\* text that is empty or white space only
IsBlank(text) == \A i \in 1..Len(text) : SubSeq(text, i, i) \in {" ", "\n", "\t"}

\* C16: the checkpoint createCheckpoint returns, and the one the page builds
\* for a save, has status active and a continuationPrompt that is not blank;
\* and the row the insert makes of a request body has status active whatever
\* status the body carries, with the prompt the checkpoint was made with.
C16_CreatedActive ==
    libSaved # Null =>
        /\ libSaved.checkpoint.status = "active"
        /\ ~IsBlank(libSaved.checkpoint.continuationPrompt)
        /\ "row" \in DOMAIN libSaved =>
              /\ libSaved.row.status = "active"
              /\ libSaved.row.continuation_prompt = libSaved.checkpoint.continuationPrompt

\* a checkpoint createCheckpoint made of a session of messages, posted with
\* the status abandoned, and stored as active
C16_Witness ==
    /\ libSaved # Null /\ "row" \in DOMAIN libSaved
    /\ libSaved.by = "createCheckpoint" /\ libSaved.checkpoint.messages # <<>>
    /\ libSaved.payloadStatus = "abandoned" /\ libSaved.row.status = "active"

-----------------------------------------------------------------------------
(* Sessions over time *)

\* C17: the token counters of a session are never negative, and a step that
\* leaves the page in the same session (the same sessionId) decreases none
\* of inputTokens, outputTokens and totalTokens.
C17_MonotoneCounters ==
    /\ [](\A c \in Clients :
            /\ tokenUsage[c].inputTokens >= 0
            /\ tokenUsage[c].outputTokens >= 0
            /\ tokenUsage[c].totalTokens >= 0)
    /\ [][\A c \in Clients : sessionId'[c] = sessionId[c] =>
            /\ tokenUsage'[c].inputTokens >= tokenUsage[c].inputTokens
            /\ tokenUsage'[c].outputTokens >= tokenUsage[c].outputTokens
            /\ tokenUsage'[c].totalTokens >= tokenUsage[c].totalTokens]_vars

\* a session whose counters were raised by a large report and then by a small one
C17_Witness ==
    \E c \in Clients :
        /\ tokenUsage[c].inputTokens = 126003 /\ tokenUsage[c].outputTokens = 2
        /\ Len(messages[c]) = 4 /\ "tokens" \in DOMAIN messages[c][4] /\ messages[c][4].tokens = 2

\* C18: when a page instance starts and its initSession loads the active
\* checkpoint of the store, the page shows the resume prompt for it: the
\* prompt is on, for the checkpoint created last, and the page is mounted.
C18_NextSessionResume ==
    [][\A c \in Clients : IsInitStep(c) /\ activeCheckpoint'[c] # Null =>
          /\ showResumePrompt'[c]
          /\ activeCheckpoint'[c] \in GetActive(store)
          /\ Mounted(c)']_vars

\* the sessionIds a page instance may come to have
SessionIds == {uuidv4(c, n) : c \in Clients, n \in 1..(2 * MaxSessionSends + 2 * MaxSessionSaves + 2)}

\* C19: a session whose usage has reached the model's limit gets a checkpoint
\* persisted, without the user having to save.
C19_AutoCheckpoint ==
    \A c \in Clients : \A sid \in SessionIds :
        (sessionId[c] = sid /\ tokenUsage[c].totalTokens >= MODEL_LIMIT)
            ~> (\E id \in DOMAIN store : store[id].session_id = sid)

-----------------------------------------------------------------------------
(* Resume, estimates, copies *)

\* C21: a page instance that offers to resume the checkpoint it has loaded
\* lets the user choose Resume, and the handleSend call of handleResume, made
\* with the prompt handleResume reads from the loaded record, is made for the
\* checkpoint's stored continuation prompt and is not turned away.
C21_ResumeSubmits ==
    \A c \in Clients : showResumePrompt[c] /\ activeCheckpoint[c] # Null =>
        LET content == SendContent(PropStr(activeCheckpoint[c], "continuationPrompt"), "")
        IN  /\ Mounted(c)
            /\ content = activeCheckpoint[c].continuation_prompt
            /\ ~SendRejected(content, FALSE)

\* the step ends stream s of page instance c with no done event and no error
\* event read, and no failure of the transport
IsEndWithoutUsage(c, s) ==
    /\ s \in sends[c] /\ sends'[c] = sends[c] \ {s}
    /\ s.pc = "open" /\ messages'[c] = messages[c]

\* C22: when a response ends with no usage report, in the session that sent
\* it, the session's counters are those it had when the send was made plus the
\* estimates of the turn: ceil(length / 4) of the user's text on the input
\* side and of the assistant's text on the output side.
C22_EstimateFallback ==
    [][\A c \in Clients : \A s \in sends[c] :
          IsEndWithoutUsage(c, s) /\ s.sessionId = sessionId[c] =>
              LET input == estimateTokens(s.body[Len(s.body)].content)
                  output == estimateTokens(s.fullContent)
              IN  /\ tokenUsage'[c].inputTokens = s.usageAtSend.inputTokens + input
                  /\ tokenUsage'[c].outputTokens = s.usageAtSend.outputTokens + output
                  /\ tokenUsage'[c].totalTokens = s.usageAtSend.totalTokens + input + output]_vars

\* the count the recomputation is to take for a message: its token count
\* where it has one, the estimate of its content where it has none
CountOf(msg) == IF "tokens" \in DOMAIN msg THEN msg.tokens ELSE (Len(msg.content) + 3) \div 4

RECURSIVE SumOfRole(_, _)
SumOfRole(msgs, role) ==
    IF Len(msgs) = 0 THEN 0
    ELSE (IF msgs[1].role = role THEN CountOf(msgs[1]) ELSE 0) + SumOfRole(Tail(msgs), role)

\* C23: for every message list and model, calculateTokenUsage returns as
\* inputTokens the sum over the user messages, and as outputTokens the sum
\* over the assistant messages, of the message's token count where it has one
\* (a count of 0 too) and of ceil(length(content) / 4) where it has none;
\* totalTokens is their sum and percentUsed is totalTokens over 180000 for a
\* known model and over 150000 for another; user turns of 40, 55, 30 and
\* assistant turns of 200, 150 give 125, 350, 475 and the status active.
C23_BulkRecompute ==
    LET input == SumOfRole(libMessages, "user")
        output == SumOfRole(libMessages, "assistant")
        limit == IF libModel \in KnownModels THEN 180000 ELSE 150000
    IN  /\ libUsage.inputTokens = input
        /\ libUsage.outputTokens = output
        /\ libUsage.totalTokens = input + output
        /\ libUsage.percentUsed.num * limit = libUsage.totalTokens * libUsage.percentUsed.den
        /\ libUsage.model = libModel
        /\ (Len(libMessages) = 5 /\ input = 125 /\ output = 350
             /\ \A i \in 1..5 : "tokens" \in DOMAIN libMessages[i] /\ libMessages[i].tokens # 0)
              => /\ libUsage.inputTokens = 125 /\ libUsage.outputTokens = 350
                 /\ libUsage.totalTokens = 475 /\ libView.status = "active"

\* C24: a checkpoint made of a session, by createCheckpoint or by the page's
\* save, reads the messages and the tokenUsage the session had when it was
\* made, whatever is changed in the session afterwards.
C24_NoAliasing ==
    libSaved # Null =>
        /\ libSaved.checkpoint.messages = libSaved.taken.messages
        /\ libSaved.checkpoint.tokenUsage = libSaved.taken.tokenUsage

-----------------------------------------------------------------------------
(* Save and reset, the prompt's tail, usage after a save *)

\* C25: the checkpoint a save posts carries the messages, tokenUsage and
\* sessionId the session has when the save is requested; when the POST
\* answers with success the stored checkpoint holds them, and the session of
\* the page is reset: no messages, all four counters zero, and a sessionId
\* that is new and is not the checkpoint's.
C25_SaveResets ==
    [][/\ \A p \in posts' \ posts : p.pc = "sent" =>
              /\ p.checkpoint.messages = messages[p.client]
              /\ p.checkpoint.tokenUsage = tokenUsage[p.client]
              /\ p.checkpoint.sessionId = sessionId[p.client]
       /\ \A p \in posts : IsAnswerStep(p) /\ p.pc = "ok" =>
              LET c == p.client
                  row == store[p.checkpoint.id]
              IN  /\ row.messages = p.checkpoint.messages
                  /\ row.token_usage = p.checkpoint.tokenUsage
                  /\ row.session_id = p.checkpoint.sessionId
                  /\ Mounted(c) =>
                        /\ messages'[c] = <<>>
                        /\ tokenUsage'[c].inputTokens = 0 /\ tokenUsage'[c].outputTokens = 0
                        /\ tokenUsage'[c].totalTokens = 0 /\ tokenUsage'[c].percentUsed.num = 0
                        /\ sessionId'[c] \notin {"", sessionId[c], p.checkpoint.sessionId}]_vars

\* a save has succeeded and been answered: the stored checkpoint holds the two
\* messages and the 153000 tokens of the session it was taken of, and the
\* page is in a new, empty session
C25_Witness ==
    \E id \in DOMAIN store :
        /\ posts = {} /\ Mounted(1)
        /\ Len(store[id].messages) = 2 /\ store[id].token_usage.totalTokens = 153000
        /\ messages[1] = <<>> /\ tokenUsage[1] = ZeroUsage
        /\ sessionId[1] # store[id].session_id /\ sessionId[1] # ""

\* part occurs in text
Contains(text, part) ==
    \E i \in 1..(Len(text) - Len(part) + 1) : SubSeq(text, i, i + Len(part) - 1) = part

\* the last min(n, length) messages, in their order
TailOf(msgs, n) == [i \in 1..Min(n, Len(msgs)) |-> msgs[Len(msgs) - Min(n, Len(msgs)) + i]]

\* a message as the prompt is to show it: at most the first width characters
\* of its content, and the ellipsis exactly when the content is longer
TailLine(m, width) ==
    ToUpperCase(m.role) \o ": " \o SubSeq(m.content, 1, Min(width, Len(m.content)))
        \o (IF Len(m.content) > width THEN "..." ELSE "")

TailText(msgs, n, width) ==
    JoinLines([i \in 1..Len(TailOf(msgs, n)) |-> TailLine(TailOf(msgs, n)[i], width)])

\* C26: the continuation prompt of a checkpoint shows, between the heading of
\* its recent-context section and the section after it, the last min(N, length)
\* messages of the session in their order, one per line; each with at most the
\* first 200 characters of its content for createCheckpoint (N = 5) and 150
\* for the page (N = 6), followed by the ellipsis if and only if the content
\* is longer than that.
C26_PromptTail ==
    libSaved # Null =>
        LET prompt == libSaved.checkpoint.continuationPrompt
            msgs == libSaved.taken.messages
        IN  IF libSaved.by = "createCheckpoint"
            THEN Contains(prompt, "### Recent Context\n" \o TailText(msgs, 5, 200) \o "\n\n### Variables")
            ELSE Contains(prompt, "### Recent Context:\n" \o TailText(msgs, 6, 150) \o "\n\n**INSTRUCTION:**")

\* C27: a step that handles an event of a response sent by a session the page
\* has left since (the request carried that session's id, and the page has
\* another now) changes none of the page's counters; and a session with an
\* empty message list has totalTokens = 0.
C27_UsageToItsSession ==
    /\ [][\A c \in Clients : \A s \in sends[c] :
            (s.sessionId # "" /\ s.sessionId # sessionId[c]
                /\ sessionId'[c] = sessionId[c] /\ sends'[c] # sends[c])
                => tokenUsage'[c] = tokenUsage[c]]_vars
    /\ [](\A c \in Clients : Mounted(c) /\ messages[c] = <<>> => tokenUsage[c].totalTokens = 0)

-----------------------------------------------------------------------------
(* POST: the insert after the demotion *)

\* the step is POST p's insert step and the insert fails
IsFailedInsert(p) ==
    /\ p \in posts /\ p.pc = "demoted"
    /\ \E q \in posts' : q.checkpoint = p.checkpoint /\ q.pc = "error"

\* C28: when the insert of a POST fails, the checkpoints of the session that
\* were active when the POST began are active after it.
C28_FailedSaveKeepsActive ==
    [][\A p \in posts : IsFailedInsert(p) =>
          \A id \in p.activeBefore : store'[id].status = "active"]_vars

\* C29: a POST whose update of the session's active checkpoints has failed,
\* leaving active the checkpoints it was to supersede, does not insert its
\* checkpoint: its next step leaves the store without the new row, and the
\* session with no more than one active checkpoint.
C29_NoInsertAfterFailedDemotion ==
    [][\A p \in posts :
          (p.pc = "demoted" /\ ~p.demoteOk /\ p.activeBefore # {} /\ p \notin posts') =>
              /\ p.checkpoint.id \notin DOMAIN store'
              /\ Cardinality(ActiveOf(store', p.checkpoint.sessionId)) <= 1]_vars

-----------------------------------------------------------------------------
(* What a request to the provider carries *)

\* the messages as a request carries them: role and content
AsSent(msgs) == [i \in 1..Len(msgs) |-> [role |-> msgs[i].role, content |-> msgs[i].content]]

\* the step starts the request s of page instance c
IsNewRequest(c, s) == s \in sends'[c] /\ \A t \in sends[c] : t.assistantId # s.assistantId

\* every request a page sends carries the messages the session has, in their
\* order, and then the new user message, which is the one the step puts in
\* the list before the assistant's
RequestCarriesSession ==
    [][\A c \in Clients : \A s \in sends'[c] : IsNewRequest(c, s) =>
          /\ Len(s.body) = Len(messages[c]) + 1
          /\ SubSeq(s.body, 1, Len(messages[c])) = AsSent(messages[c])
          /\ s.body = AsSent(SubSeq(messages'[c], 1, Len(messages'[c]) - 1))
          /\ s.body[Len(s.body)].role = "user"]_vars

\* C30: every request a page sends carries the messages the session has, in
\* their order, and then the new user message; and a page that offers to
\* resume the checkpoint it has loaded is able to, the request its resume
\* makes carrying the checkpoint's messages and then the checkpoint's
\* continuation prompt.
C30_RequestCarriesAll ==
    /\ RequestCarriesSession
    /\ [](\A c \in Clients : showResumePrompt[c] /\ activeCheckpoint[c] # Null =>
            /\ Mounted(c)
            /\ ResumeRequest(messages[c], activeCheckpoint[c])
                  = Append(AsSent(activeCheckpoint[c].messages),
                           [role |-> "user", content |-> activeCheckpoint[c].continuation_prompt]))

====
